---- MODULE Spec2Model ----
\* A model of nvidia_ocr/client.py: the nvOCR client, its embedded FilesClient
\* and the four operations upload, process_uploaded_file, process_image and
\* health_check.  One call is one action: the whole handler, from argument
\* validation to the value returned or the exception raised.  The state keeps
\* the constructed client, the constructor's arguments, what the last call
\* did (the requests it put on the wire, the response it got, its outcome)
\* and running counts of calls, validated calls and requests.
\*
\* URLs are sequences of one-character strings, so that rstrip and the
\* f-string concatenations are computed character by character.  Response
\* bodies and error messages are strings, concatenated with \o.
EXTENDS Integers, Sequences, FiniteSets, TLC

VARIABLES self, ctor, last, ncalls, nvalid, nsent

vars == <<self, ctor, last, ncalls, nvalid, nsent>>

----------------------------------------------------------------------------
\* Bounds of the model.

\* Longest url argument given to the constructor.
MaxUrlLen == 3

\* Calls made on one client in one behaviour.
MaxCalls == 2

----------------------------------------------------------------------------
\* Inputs.

UrlChars == {"h", "/"}

Urls == UNION { [1..n -> UrlChars] : n \in 0..MaxUrlLen }

Keys == {"sk-1", "sk-2"}

Files ==
    { [file_name |-> "a.png", content |-> "0123456789"],
      [file_name |-> "a.png"],
      [content |-> "0123456789"],
      [k \in {} |-> ""] }

Purposes == {"ocr", "batch"}

FileIds == { <<"f", "1">>, <<"f", "2">> }

PromptModes == {"prompt_layout_all_en", "prompt_ocr"}

Documents ==
    { [type |-> "image_url", image_url |-> "data:image/png;base64,AAAA"] }

\* Response bodies the service may send.
FullF1 == "{\"id\":\"f1\",\"purpose\":\"ocr\",\"filename\":\"a.png\",\"bytes\":10,\"created_at\":1700000000,\"status\":\"uploaded\"}"
FullF2 == "{\"id\":\"f2\",\"purpose\":\"batch\",\"filename\":\"b.pdf\",\"bytes\":0,\"created_at\":1,\"status\":\"processed\"}"
NoStatus == "{\"id\":\"f1\",\"purpose\":\"ocr\",\"filename\":\"a.png\",\"bytes\":10,\"created_at\":1700000000}"
ExtraField == "{\"id\":\"f1\",\"object\":\"file\",\"purpose\":\"ocr\",\"filename\":\"a.png\",\"bytes\":10,\"created_at\":1700000000,\"status\":\"uploaded\"}"
JsonList == "[]"
Markdown == "# Title\nBody"

Bodies ==
    { FullF1, FullF2, NoStatus, ExtraField, JsonList, Markdown }

OK == 200

StatusCodes == {OK, 201, 500}

\* A response received from the service, or the transport failing
\* (session.post / session.get raising instead of returning).
Responses ==
    [received : {TRUE}, status_code : StatusCodes, text : Bodies]
        \cup { [received |-> FALSE, status_code |-> 0, text |-> ""] }

----------------------------------------------------------------------------
\* Strings.

\* str.rstrip('/'): drops every trailing '/'.
RECURSIVE rstrip(_)
rstrip(s) ==
    IF s = <<>> \/ s[Len(s)] # "/" THEN s
    ELSE rstrip(SubSeq(s, 1, Len(s) - 1))

FilesPath == <<"/", "v", "1", "/", "f", "i", "l", "e", "s">>

ProcessFilePath ==
    <<"/", "v", "1", "/", "o", "c", "r", "/", "p", "r", "o", "c", "e", "s", "s",
      "_", "f", "i", "l", "e", "/">>

ProcessImagePath ==
    <<"/", "v", "1", "/", "o", "c", "r", "/", "p", "r", "o", "c", "e", "s", "s",
      "_", "i", "m", "a", "g", "e">>

HealthPath == <<"/", "h", "e", "a", "l", "t", "h">>

----------------------------------------------------------------------------
\* Values exchanged with the HTTP session.

\* A keyword argument the call does not pass.
Absent == [k \in {} |-> ""]

\* One call of session.post / session.get: the method, the URL and the
\* keyword arguments params, data, files, json and headers.
Request(method, url, params, data, files, json_) ==
    [method |-> method, url |-> url, params |-> params, data |-> data,
     files |-> files, json |-> json_, headers |-> Absent]

Return(value) == [kind |-> "return", value |-> value]

Raise(type, message) == [kind |-> "raise", type |-> type, message |-> message]

\* What the handler did: the requests it sent, in order, and how it ended.
Done(requests, outcome) == [requests |-> requests, outcome |-> outcome]

\* The session call raising instead of returning a response.
TransportError == Raise("ConnectionError", "")

\* response.json(): the body parsed as JSON, or the decoding failing.
json(text) ==
    CASE text = FullF1 ->
            [ok |-> TRUE, type |-> "object",
             value |-> [id |-> "f1", purpose |-> "ocr", filename |-> "a.png",
                        bytes |-> 10, created_at |-> 1700000000,
                        status |-> "uploaded"]]
      [] text = FullF2 ->
            [ok |-> TRUE, type |-> "object",
             value |-> [id |-> "f2", purpose |-> "batch", filename |-> "b.pdf",
                        bytes |-> 0, created_at |-> 1, status |-> "processed"]]
      [] text = NoStatus ->
            [ok |-> TRUE, type |-> "object",
             value |-> [id |-> "f1", purpose |-> "ocr", filename |-> "a.png",
                        bytes |-> 10, created_at |-> 1700000000]]
      [] text = ExtraField ->
            [ok |-> TRUE, type |-> "object",
             value |-> [id |-> "f1", object |-> "file", purpose |-> "ocr",
                        filename |-> "a.png", bytes |-> 10,
                        created_at |-> 1700000000, status |-> "uploaded"]]
      [] text = JsonList ->
            [ok |-> TRUE, type |-> "array", value |-> Absent]
      [] OTHER ->
            [ok |-> FALSE, type |-> "none", value |-> Absent]

----------------------------------------------------------------------------
\* UploadedFile.

UploadedFileFields ==
    {"id", "purpose", "filename", "bytes", "created_at", "status"}

\* A variant that binds two of the string fields crosswise.
UploadedFile_crossed(result) ==
    IF result.type # "object" THEN
        Raise("TypeError", "argument after ** must be a mapping")
    ELSE IF DOMAIN result.value # UploadedFileFields THEN
        Raise("TypeError", "__init__() got wrong arguments")
    ELSE
        Return([id |-> result.value.id,
                purpose |-> result.value.filename,
                filename |-> result.value.purpose,
                bytes |-> result.value.bytes,
                created_at |-> result.value.created_at,
                status |-> result.value.status])

\* A variant that drops the keys it does not know.
UploadedFile_lenient(result) ==
    IF result.type # "object" THEN
        Raise("TypeError", "argument after ** must be a mapping")
    ELSE IF ~(UploadedFileFields \subseteq DOMAIN result.value) THEN
        Raise("TypeError", "__init__() missing required arguments")
    ELSE
        Return([f \in UploadedFileFields |-> result.value[f]])

\* UploadedFile(**result): the dataclass's generated __init__ takes exactly
\* the six declared fields by keyword; a missing or an unexpected keyword,
\* or a result that is no mapping, is a TypeError.
UploadedFile(result) ==
    IF result.type # "object" THEN
        Raise("TypeError", "argument after ** must be a mapping")
    ELSE IF UploadedFileFields \ DOMAIN result.value # {} THEN
        Raise("TypeError", "__init__() missing required arguments")
    ELSE IF DOMAIN result.value \ UploadedFileFields # {} THEN
        Raise("TypeError", "__init__() got an unexpected keyword argument")
    ELSE
        Return([id |-> result.value.id,
                purpose |-> result.value.purpose,
                filename |-> result.value.filename,
                bytes |-> result.value.bytes,
                created_at |-> result.value.created_at,
                status |-> result.value.status])

----------------------------------------------------------------------------
\* The failure raised on a status other than 200.

\* A variant that keeps the label and loses the body.
Failed_label_only(label, response) == Raise("Exception", label)

\* A variant that puts the status code in front of the body.
Failed_with_status(label, response) ==
    Raise("Exception",
          label \o ToString(response.status_code) \o " " \o response.text)

\* raise Exception(f"<label>{response.text}")
Failed(label, response) == Raise("Exception", label \o response.text)

----------------------------------------------------------------------------
\* Construction.

\* FilesClient.__init__
FilesClient_init(base_url, api_key) ==
    [base_url |-> base_url, api_key |-> api_key]

\* A variant that keeps the url as given.
nvOCR_init_as_given(api_key, url) ==
    [api_key |-> api_key, url |-> url, files |-> FilesClient_init(url, api_key)]

\* A variant that drops at most one trailing slash.
nvOCR_init_one_slash(api_key, url) ==
    LET u == IF url # <<>> /\ url[Len(url)] = "/"
             THEN SubSeq(url, 1, Len(url) - 1) ELSE url
    IN  [api_key |-> api_key, url |-> u, files |-> FilesClient_init(u, api_key)]

\* nvOCR.__init__
nvOCR_init(api_key, url) ==
    [api_key |-> api_key,
     url |-> rstrip(url),
     files |-> FilesClient_init(rstrip(url), api_key)]

----------------------------------------------------------------------------
\* The handlers, as functions of the client, the arguments and the response
\* the service gives to the request.

\* A variant that posts first and validates afterwards.
upload_post_first(fc, file, purpose, response) ==
    LET name == IF "file_name" \in DOMAIN file THEN file.file_name ELSE ""
        content == IF "content" \in DOMAIN file THEN file.content ELSE ""
        req == Request("POST", fc.base_url \o FilesPath, Absent,
                       [purpose |-> purpose], [file |-> <<name, content>>],
                       Absent)
    IN  Done(<<req>>,
             IF "file_name" \notin DOMAIN file \/ "content" \notin DOMAIN file
             THEN Raise("ValueError",
                        "File must contain 'file_name' and 'content' keys")
             ELSE IF ~response.received THEN TransportError
             ELSE IF response.status_code # OK
             THEN Failed("Upload failed: ", response)
             ELSE IF ~json(response.text).ok
             THEN Raise("JSONDecodeError", "")
             ELSE UploadedFile(json(response.text)))

\* FilesClient.upload
upload(fc, file, purpose, response) ==
    IF "file_name" \notin DOMAIN file \/ "content" \notin DOMAIN file THEN
        Done(<<>>, Raise("ValueError",
                         "File must contain 'file_name' and 'content' keys"))
    ELSE
        LET req == Request("POST", fc.base_url \o FilesPath, Absent,
                           [purpose |-> purpose],
                           [file |-> <<file.file_name, file.content>>],
                           Absent)
        IN  Done(<<req>>,
                 IF ~response.received THEN TransportError
                 ELSE IF response.status_code # OK
                 THEN Failed("Upload failed: ", response)
                 ELSE IF ~json(response.text).ok
                 THEN Raise("JSONDecodeError", "")
                 ELSE UploadedFile(json(response.text)))

\* A variant that returns the text with a newline added.
text_reformatted(response) == Return(response.text \o "\n")

\* return response.text
text(response) == Return(response.text)

\* A variant that sends the key as a query parameter.
process_uploaded_file_with_key(client, file_id, prompt_mode, response) ==
    LET req == Request("POST", client.url \o ProcessFilePath \o file_id,
                       [prompt_mode |-> prompt_mode, api_key |-> client.api_key],
                       Absent, Absent, Absent)
    IN  Done(<<req>>,
             IF ~response.received THEN TransportError
             ELSE IF response.status_code # OK
             THEN Failed("Processing failed: ", response)
             ELSE text(response))

\* nvOCR.process_uploaded_file
process_uploaded_file(client, file_id, prompt_mode, response) ==
    LET req == Request("POST", client.url \o ProcessFilePath \o file_id,
                       [prompt_mode |-> prompt_mode], Absent, Absent, Absent)
    IN  Done(<<req>>,
             IF ~response.received THEN TransportError
             ELSE IF response.status_code # OK
             THEN Failed("Processing failed: ", response)
             ELSE text(response))

\* nvOCR.process_image
process_image(client, document, prompt_mode, response) ==
    LET req == Request("POST", client.url \o ProcessImagePath, Absent, Absent,
                       Absent,
                       [document |-> document, prompt_mode |-> prompt_mode])
    IN  Done(<<req>>,
             IF ~response.received THEN TransportError
             ELSE IF response.status_code # OK
             THEN Failed("Processing failed: ", response)
             ELSE text(response))

\* A variant that sends the request again after a failure.
health_check_retry(client, response) ==
    LET req == Request("GET", client.url \o HealthPath, Absent, Absent, Absent,
                       Absent)
    IN  IF response.received /\ response.status_code = OK
        THEN Done(<<req>>,
                  IF ~json(response.text).ok THEN Raise("JSONDecodeError", "")
                  ELSE Return(json(response.text).value))
        ELSE Done(<<req, req>>,
                  IF ~response.received THEN TransportError
                  ELSE Failed("Health check failed: ", response))

\* nvOCR.health_check
health_check(client, response) ==
    LET req == Request("GET", client.url \o HealthPath, Absent, Absent, Absent,
                       Absent)
    IN  Done(<<req>>,
             IF ~response.received THEN TransportError
             ELSE IF response.status_code # OK
             THEN Failed("Health check failed: ", response)
             ELSE IF ~json(response.text).ok
             THEN Raise("JSONDecodeError", "")
             ELSE Return(json(response.text).value))

----------------------------------------------------------------------------
\* The state machine.

NoResponse == [received |-> FALSE, status_code |-> 0, text |-> ""]

NoCall ==
    [op |-> "none", args |-> Absent, requests |-> <<>>, response |-> NoResponse,
     outcome |-> [kind |-> "none"]]

\* The state after nvOCR(api_key, url): no request has been sent.
Init ==
    \E api_key \in Keys, url \in Urls :
        /\ ctor = [api_key |-> api_key, url |-> url]
        /\ self = nvOCR_init(api_key, url)
        /\ last = NoCall
        /\ ncalls = 0
        /\ nvalid = 0
        /\ nsent = 0

\* The bookkeeping of one finished call: `passed` says whether the arguments
\* passed the handler's validation, `did` is what the handler did.
Record(op, args, passed, response, did) ==
    /\ ncalls < MaxCalls
    /\ last' = [op |-> op, args |-> args, requests |-> did.requests,
                response |-> IF did.requests = <<>> THEN NoResponse ELSE response,
                outcome |-> did.outcome]
    /\ ncalls' = ncalls + 1
    /\ nvalid' = nvalid + (IF passed THEN 1 ELSE 0)
    /\ nsent' = nsent + Len(did.requests)
    /\ UNCHANGED <<self, ctor>>

\* client.files.upload(file, purpose)
CallUpload ==
    \E file \in Files, purpose \in Purposes :
      \E response \in IF {"file_name", "content"} \subseteq DOMAIN file
                      THEN Responses ELSE {NoResponse} :
        Record("upload", [file |-> file, purpose |-> purpose],
               {"file_name", "content"} \subseteq DOMAIN file,
               response, upload(self.files, file, purpose, response))

\* client.process_uploaded_file(file_id, prompt_mode)
CallProcessUploadedFile ==
    \E file_id \in FileIds, prompt_mode \in PromptModes, response \in Responses :
        Record("process_uploaded_file",
               [file_id |-> file_id, prompt_mode |-> prompt_mode],
               TRUE, response,
               process_uploaded_file(self, file_id, prompt_mode, response))

\* client.process_image(document, prompt_mode)
CallProcessImage ==
    \E document \in Documents, prompt_mode \in PromptModes,
       response \in Responses :
        Record("process_image",
               [document |-> document, prompt_mode |-> prompt_mode],
               TRUE, response,
               process_image(self, document, prompt_mode, response))

\* client.health_check()
CallHealthCheck ==
    \E response \in Responses :
        Record("health_check", Absent, TRUE, response,
               health_check(self, response))

Next ==
    \/ CallUpload
    \/ CallProcessUploadedFile
    \/ CallProcessImage
    \/ CallHealthCheck

Spec == Init /\ [][Next]_vars

----------------------------------------------------------------------------
\* Helpers of the properties.

Called == last.op # "none"

HasBothKeys(file) == {"file_name", "content"} \subseteq DOMAIN file

\* The last call got a response with a status other than 200.
GotNon200 ==
    /\ Called
    /\ last.requests # <<>>
    /\ last.response.received
    /\ last.response.status_code # OK

\* The last call got a response with status 200.
Got200 ==
    /\ Called
    /\ last.requests # <<>>
    /\ last.response.received
    /\ last.response.status_code = OK

\* What the last call, with the same arguments, does on `client` when the
\* service answers `response`.
ReplayWith(client, response) ==
    CASE last.op = "upload" ->
            upload(client.files, last.args.file, last.args.purpose, response)
      [] last.op = "process_uploaded_file" ->
            process_uploaded_file(client, last.args.file_id,
                                  last.args.prompt_mode, response)
      [] last.op = "process_image" ->
            process_image(client, last.args.document, last.args.prompt_mode,
                          response)
      [] last.op = "health_check" ->
            health_check(client, response)

Replay(client) == ReplayWith(client, last.response)

\* The label each operation puts in front of the body in its error.
Label ==
    CASE last.op = "upload" -> "Upload failed: "
      [] last.op = "process_uploaded_file" -> "Processing failed: "
      [] last.op = "process_image" -> "Processing failed: "
      [] last.op = "health_check" -> "Health check failed: "

EndsInSlash(s) == s # <<>> /\ s[Len(s)] = "/"

Front(s) == SubSeq(s, 1, Len(s) - 1)

----------------------------------------------------------------------------
\* C1: an upload whose file mapping lacks file_name or content raises
\* ValueError and sends no request, whatever the purpose: the call leaves the
\* number of requests sent unchanged.
C1_InvalidFileSendsNothing ==
    [][ (/\ ncalls' = ncalls + 1
         /\ last'.op = "upload"
         /\ ~HasBothKeys(last'.args.file))
        => (/\ last'.outcome.kind = "raise"
            /\ last'.outcome.type = "ValueError"
            /\ last'.requests = <<>>
            /\ nsent' = nsent) ]_vars

C1_Witness ==
    /\ last.op = "upload"
    /\ DOMAIN last.args.file = {"file_name"}
    /\ last.args.purpose = "batch"
    /\ last.outcome.kind = "raise"
    /\ nsent = 1

\* C2: an upload whose file mapping has both keys sends exactly one request,
\* a POST to {base_url}/v1/files, and on a 200 response whose JSON body has
\* exactly the six fields it returns an UploadedFile equal to it field by field.
C2_UploadReturnsResponseFields ==
    (last.op = "upload" /\ HasBothKeys(last.args.file)) =>
        /\ Len(last.requests) = 1
        /\ last.requests[1].method = "POST"
        /\ last.requests[1].url = self.url \o FilesPath
        /\ (/\ Got200
            /\ json(last.response.text).ok
            /\ json(last.response.text).type = "object"
            /\ DOMAIN json(last.response.text).value = UploadedFileFields)
           => /\ last.outcome.kind = "return"
              /\ DOMAIN last.outcome.value = UploadedFileFields
              /\ \A f \in UploadedFileFields :
                    last.outcome.value[f] = json(last.response.text).value[f]

C2_Witness ==
    /\ last.op = "upload"
    /\ Got200
    /\ last.response.text = FullF2
    /\ last.outcome.kind = "return"
    /\ last.outcome.value.id = "f2"
    /\ last.outcome.value.bytes = 0

\* C3: on a response whose status is not 200 (201 included) every operation
\* raises its error and returns nothing, and the error's message is the
\* operation's label followed by the response body text, unmodified.
C3_Non200RaisesWithBody ==
    GotNon200 =>
        /\ last.outcome.kind = "raise"
        /\ last.outcome.type = "Exception"
        /\ last.outcome.message = Label \o last.response.text

C3_Witness ==
    /\ GotNon200
    /\ last.op = "health_check"
    /\ last.response.status_code = 201
    /\ last.response.text = Markdown
    /\ last.outcome.kind = "raise"

\* C4: on a 200 response process_uploaded_file and process_image return the
\* response body text itself, whatever it contains.
C4_ProcessReturnsBody ==
    (Got200 /\ last.op \in {"process_uploaded_file", "process_image"}) =>
        last.outcome = [kind |-> "return", value |-> last.response.text]

C4_Witness ==
    /\ Got200
    /\ last.op = "process_image"
    /\ last.response.text = Markdown
    /\ last.outcome.kind = "return"

\* C5: a client constructed with a url ending in one slash sends every
\* request to the same URL as a client constructed with that url without the
\* slash, for the same call.
C5_TrailingSlashSameUrls ==
    (/\ Called
     /\ EndsInSlash(ctor.url)
     /\ ~EndsInSlash(Front(ctor.url)))
    => LET twin == nvOCR_init(ctor.api_key, Front(ctor.url))
       IN  /\ Len(Replay(twin).requests) = Len(last.requests)
           /\ \A i \in DOMAIN last.requests :
                 last.requests[i].url = Replay(twin).requests[i].url

C5_Witness ==
    /\ last.op = "upload"
    /\ ctor.url = <<"h", "h", "/">>
    /\ last.requests # <<>>
    /\ last.requests[1].url = <<"h", "h">> \o FilesPath

\* C6 as stated: construction removes exactly one trailing slash (a url
\* ending in k >= 1 slashes is stored with k-1), a url without one is stored
\* unchanged, and the uploader gets the same base URL.
C6_RemovesExactlyOneSlash ==
    /\ self.url = IF EndsInSlash(ctor.url) THEN Front(ctor.url) ELSE ctor.url
    /\ self.files.base_url = self.url

\* C6 amended: construction removes every trailing slash: the stored base URL
\* is the longest prefix of url that does not end in a slash (url itself when
\* it has no trailing slash), and the uploader gets the same base URL.
C6_RemovesAllTrailingSlashes ==
    /\ \E n \in 0..Len(ctor.url) :
          /\ self.url = SubSeq(ctor.url, 1, n)
          /\ \A i \in (n + 1)..Len(ctor.url) : ctor.url[i] = "/"
    /\ ~EndsInSlash(self.url)
    /\ self.files.base_url = self.url

C6_Witness ==
    /\ ctor.url = <<"h", "/", "/">>
    /\ self.url = <<"h">>
    /\ self.files.base_url = <<"h">>
    /\ nsent > 0

\* C7: when the upload endpoint answers 200 with a JSON object whose field
\* set is not exactly the six fields (one missing, or an unknown one
\* present), upload raises and returns no UploadedFile.
C7_SchemaDriftRaises ==
    (/\ last.op = "upload"
     /\ Got200
     /\ json(last.response.text).ok
     /\ json(last.response.text).type = "object"
     /\ DOMAIN json(last.response.text).value # UploadedFileFields)
    => last.outcome.kind = "raise"

C7_Witness ==
    /\ last.op = "upload"
    /\ Got200
    /\ last.response.text = ExtraField
    /\ last.outcome.kind = "raise"
    /\ last.outcome.type = "TypeError"

\* C8: every call that passes validation sends exactly one request and ends
\* by returning or raising, a failed call is not retried, and so the number
\* of requests sent equals the number of calls that passed validation.  The
\* outcome is the one the same call gets on a freshly constructed client:
\* earlier calls do not change it.
C8_OneRequestPerValidCall ==
    /\ nsent = nvalid
    /\ Called =>
          /\ last.outcome.kind \in {"return", "raise"}
          /\ last.outcome = Replay(nvOCR_init(ctor.api_key, ctor.url)).outcome
          /\ Len(last.requests) =
                IF last.op = "upload" /\ ~HasBothKeys(last.args.file)
                THEN 0 ELSE 1

C8_Witness ==
    /\ ncalls = 2
    /\ nvalid = 2
    /\ nsent = 2
    /\ GotNon200
    /\ last.outcome.kind = "raise"

\* C9 as stated: the error raised on a non-200 response carries the HTTP
\* status: from the error the status can be told, so two responses that
\* raise the same error have the same status.
C9_ErrorCarriesStatus ==
    GotNon200 =>
        \A r \in Responses :
            (/\ r.received
             /\ r.status_code # OK
             /\ ReplayWith(self, r).outcome = last.outcome)
            => r.status_code = last.response.status_code

\* C9 amended: the error raised on a non-200 response carries the raw
\* response body and not the HTTP status: two non-200 responses with the
\* same body raise the same error whatever their statuses.
C9_ErrorCarriesBodyOnly ==
    GotNon200 =>
        /\ last.outcome.kind = "raise"
        /\ \A r \in Responses :
              (/\ r.received
               /\ r.status_code # OK
               /\ r.text = last.response.text)
              => ReplayWith(self, r).outcome = last.outcome

C9_Witness ==
    /\ GotNon200
    /\ last.op = "process_uploaded_file"
    /\ last.response.status_code = 500
    /\ last.response.text = FullF1
    /\ last.outcome.kind = "raise"

\* C10: the API key is stored at construction and never sent: the client
\* still holds the key and base URL it was constructed with, no request has
\* headers, query parameters or form fields holding the key, and the
\* requests of a call are the same for every key the client could hold.
C10_KeyNeverSent ==
    /\ self.api_key = ctor.api_key
    /\ self.files.api_key = ctor.api_key
    /\ self = nvOCR_init(ctor.api_key, ctor.url)
    /\ Called =>
          /\ \A i \in DOMAIN last.requests :
                LET r == last.requests[i]
                IN  /\ r.headers = Absent
                    /\ \A p \in DOMAIN r.params : r.params[p] # ctor.api_key
                    /\ \A p \in DOMAIN r.data : r.data[p] # ctor.api_key
          /\ \A k \in Keys :
                Replay(nvOCR_init(k, ctor.url)).requests = last.requests

C10_Witness ==
    /\ last.op = "process_uploaded_file"
    /\ ctor.api_key = "sk-2"
    /\ self.api_key = "sk-2"
    /\ last.requests # <<>>
    /\ nsent = 2

====
